---- MODULE Spec2Model ----
(***************************************************************************)
(* A model of src/mini-builder.js: the module-record factory               *)
(* (createModule), the dependency-graph builder (createDependenceTree),    *)
(* the emitter (bundle), the top-level build script, and the loader that   *)
(* bundle writes into the artifact (require / requireModule).              *)
(***************************************************************************)
EXTENDS Integers, Sequences, FiniteSets, TLC

(***************************************************************************)
(* Bounds of the model.                                                    *)
(***************************************************************************)
\* the total number of import declarations in the files of the file system
MaxImports == 4
\* the build is cut off once moduleList holds this many records
MaxModules == 7
\* the loader is cut off once this many require calls are nested
MaxDepth == 5

(***************************************************************************)
(* Paths.  A file path is <<dir, base>>: the sequence of directory names   *)
(* and the file name.  A specifier is [rel, base]: './lib/a.js' is         *)
(* [rel |-> <<"lib">>, base |-> "a.js"], '../b.js' is                      *)
(* [rel |-> <<"..">>, base |-> "b.js"].                                    *)
(***************************************************************************)
ExampleDir == <<"example">>
LibDir == <<"example", "lib">>

\* the literal './example/entry.js' of the build script
EntryPath == <<ExampleDir, "entry.js">>
PathA == <<ExampleDir, "a.js">>
PathB == <<ExampleDir, "b.js">>
PathLibA == <<LibDir, "a.js">>
PathXJs == <<ExampleDir, "x.js">>

SpecA == [rel |-> <<>>, base |-> "a.js"]
SpecB == [rel |-> <<>>, base |-> "b.js"]
SpecLibA == [rel |-> <<"lib">>, base |-> "a.js"]
SpecUpB == [rel |-> <<"..">>, base |-> "b.js"]
SpecX == [rel |-> <<>>, base |-> "x"]

Specifiers == {SpecA, SpecB, SpecLibA, SpecUpB, SpecX}

\* the files whose import lists vary; x.js is a file without imports
SourceFiles == <<EntryPath, PathA, PathB, PathLibA>>

RECURSIVE Normalize(_, _)
Normalize(acc, segs) ==
    IF segs = <<>> THEN acc
    ELSE IF Head(segs) = ".." /\ acc # <<>> /\ acc[Len(acc)] # ".."
         THEN Normalize(SubSeq(acc, 1, Len(acc) - 1), Tail(segs))
         ELSE Normalize(Append(acc, Head(segs)), Tail(segs))

\* as dirname, taken of the entry's path instead of the module's own
dirname_entry(p) == ExampleDir

\* path.dirname(module.path)
dirname(p) == p[1]

\* path.join(dirname, dependencePath)
join(dir, spec) == <<Normalize(<<>>, dir \o spec.rel), spec.base>>

(***************************************************************************)
(* The state.                                                              *)
(***************************************************************************)
VARIABLES
    fs,            \* the files on disk: path -> the specifiers of its import declarations, in order
    pc,            \* the position of the build script and of the artifact's host
    identifier,    \* let identifier (the id counter of the process)
    moduleList,    \* createDependenceTree: const moduleList
    modIdx,        \* createDependenceTree: the position of the for-of iterator in moduleList
    depIdx,        \* createDependenceTree: the position of forEach in module.dependencies
    graph,         \* const graph of the build script (<<>> until createDependenceTree returns)
    firstGraph,    \* what an earlier call of createDependenceTree in this process returned
    result,        \* const result of the build script: the artifact
    output,        \* what console.log has printed
    error,         \* the exception that ended the build script
    modules,       \* the loader: the table the artifact's function is called with
    stack,         \* the loader: the active require calls, the innermost last
    factoryRuns,   \* the loader: id -> how many times modules[id][0] has been called
    returned,      \* the loader: id -> the exports objects that require(id) has returned
    nextObj,       \* the loader: how many module objects have been created
    rootValue,     \* the loader: what the call require(0) of the template has returned
    artifactValue  \* what the artifact's self-invoking function has returned

vars == <<fs, pc, identifier, moduleList, modIdx, depIdx, graph, firstGraph, result, output,
          error, modules, stack, factoryRuns, returned, nextObj, rootValue,
          artifactValue>>

buildVars == <<identifier, moduleList, modIdx, depIdx, graph, result, output, error>>
loaderVars == <<modules, stack, factoryRuns, returned, nextObj, rootValue, artifactValue>>

\* values of the generated code: undefined, and a reference to an exports object
Undefined == [type |-> "undefined"]
ObjectRef(n) == [type |-> "object", ref |-> n]
None == [type |-> "none"]

EmptyMapping == [s \in {} |-> 0]

(***************************************************************************)
(* The file systems the build is run on.  The import declarations of the   *)
(* files are drawn as one list of at most MaxImports (file, specifier)     *)
(* pairs, grouped by file.                                                 *)
(***************************************************************************)
RECURSIVE ImportsOf(_, _, _, _)
ImportsOf(owner, spec, f, k) ==
    IF k = 0 THEN <<>>
    ELSE IF owner[k] = f
         THEN Append(ImportsOf(owner, spec, f, k - 1), spec[k])
         ELSE ImportsOf(owner, spec, f, k - 1)

MakeFs(n, owner, spec) ==
    [p \in {SourceFiles[f] : f \in 1..Len(SourceFiles)} \cup {PathXJs} |->
        IF p = PathXJs THEN <<>>
        ELSE ImportsOf(owner, spec, CHOOSE f \in 1..Len(SourceFiles) : SourceFiles[f] = p, n)]

SeqElems(s) == {s[k] : k \in 1..Len(s)}

\* the paths the import declarations of the files in S name
Imported(files, S) ==
    UNION {{join(dirname(p), s) : s \in SeqElems(files[p])} : p \in S \cap DOMAIN files}

RECURSIVE ReachFrom(_, _)
ReachFrom(files, S) ==
    IF Imported(files, S) \subseteq S THEN S
    ELSE ReachFrom(files, S \cup Imported(files, S))

\* the paths reachable from the entry through import declarations
Reachable(files) == ReachFrom(files, {EntryPath})

IsSorted(owner, n) == \A k \in 1..n : k < n => owner[k] <= owner[k + 1]

(***************************************************************************)
(* createModule(path): the record it returns when the file can be read.   *)
(* The compiled code is the file's statements: one require call per import *)
(* source, in order, and then the module's own body.                       *)
(***************************************************************************)
\* as readFileSync, with the exception of a missing file caught and the
\* file read as empty
readFileSync_caught(p) ==
    IF p \in DOMAIN fs THEN [ok |-> TRUE, imports |-> fs[p]]
    ELSE [ok |-> TRUE, imports |-> <<>>]

\* fs.readFileSync(path, 'utf-8'): the file's content, or the exception
\* of a path that names no file
readFileSync(p) ==
    IF p \in DOMAIN fs THEN [ok |-> TRUE, imports |-> fs[p]]
    ELSE [ok |-> FALSE, imports |-> <<>>]

FileExists(p) == readFileSync(p).ok

\* the traverse visitor: node.source.value of every ImportDeclaration, in order
ImportDeclarations(p) == readFileSync(p).imports

RECURSIVE Distinct(_, _)
Distinct(seen, s) ==
    IF s = <<>> THEN seen
    ELSE IF Head(s) \in SeqElems(seen) THEN Distinct(seen, Tail(s))
         ELSE Distinct(Append(seen, Head(s)), Tail(s))

\* transformFromAst(ast, null, {presets: ['env']}): the CommonJs code of the
\* file, which begins with one require call per distinct import source, in
\* the order of first occurrence
transformFromAst(p) == [src |-> p, requires |-> Distinct(<<>>, ImportDeclarations(p))]

\* as NextIdentifier, with the increment lost
NextIdentifier_stays(id) == id

\* identifier++
NextIdentifier(id) == id + 1

\* as createModule, with const id = ++identifier
createModule_preIncrement(p, id) ==
    [id |-> NextIdentifier(id),
     code |-> transformFromAst(p),
     dependencies |-> ImportDeclarations(p),
     path |-> p,
     hasMapping |-> FALSE,
     dependenceMapping |-> EmptyMapping]

\* createModule(path) with identifier = id: const id = identifier++
createModule(p, id) ==
    [id |-> id,
     code |-> transformFromAst(p),
     dependencies |-> ImportDeclarations(p),
     path |-> p,
     hasMapping |-> FALSE,
     dependenceMapping |-> EmptyMapping]

Init ==
    /\ \E n \in 0..MaxImports :
         \E owner \in [1..n -> 1..Len(SourceFiles)], spec \in [1..n -> Specifiers] :
            /\ IsSorted(owner, n)
            /\ \E entryExists \in BOOLEAN :
                 /\ ~entryExists => n = 0
                 /\ fs = IF entryExists THEN MakeFs(n, owner, spec)
                         ELSE [p \in DOMAIN MakeFs(n, owner, spec) \ {EntryPath} |-> <<>>]
    \* a file that no import chain from the entry reaches is never read
    /\ \A p \in DOMAIN fs : fs[p] # <<>> => p \in Reachable(fs)
    /\ pc = "start"
    /\ identifier = 0
    /\ moduleList = <<>>
    /\ modIdx = 0
    /\ depIdx = 0
    /\ graph = <<>>
    /\ firstGraph = <<>>
    /\ result = None
    /\ output = None
    /\ error = "none"
    /\ modules = <<>>
    /\ stack = <<>>
    /\ factoryRuns = <<>>
    /\ returned = <<>>
    /\ nextObj = 0
    /\ rootValue = None
    /\ artifactValue = None

(***************************************************************************)
(* createDependenceTree('./example/entry.js')                              *)
(***************************************************************************)
\* const entryModule = createModule(entry); const moduleList = [entryModule];
CreateEntry ==
    /\ pc = "start"
    /\ IF FileExists(EntryPath)
       THEN /\ moduleList' = <<createModule(EntryPath, identifier)>>
            /\ identifier' = NextIdentifier(identifier)
            /\ modIdx' = 1
            /\ pc' = "forOf"
            /\ error' = error
       ELSE \* fs.readFileSync throws, nothing catches it
            /\ pc' = "failed"
            /\ error' = "ENOENT"
            /\ UNCHANGED <<moduleList, identifier, modIdx>>
    /\ UNCHANGED <<fs, firstGraph, depIdx, graph, result, output>>
    /\ UNCHANGED loaderVars

\* for (const module of moduleList) { module.dependenceMapping = {}; ...
VisitModule ==
    /\ pc = "forOf"
    /\ modIdx <= Len(moduleList)
    /\ moduleList' = [moduleList EXCEPT ![modIdx].hasMapping = TRUE,
                                        ![modIdx].dependenceMapping = EmptyMapping]
    /\ depIdx' = 1
    /\ pc' = "forEach"
    /\ UNCHANGED <<fs, firstGraph, identifier, modIdx, graph, result, output, error>>
    /\ UNCHANGED loaderVars

\* as SetMapping, with the counter read after createModule has advanced it
SetMapping_counter(mapping, dependencePath, id) ==
    [s \in DOMAIN mapping \cup {dependencePath} |->
        IF s = dependencePath THEN id + 1 ELSE mapping[s]]

\* module.dependenceMapping[dependencePath] = dependenceModule.id
SetMapping(mapping, dependencePath, id) ==
    [s \in DOMAIN mapping \cup {dependencePath} |->
        IF s = dependencePath THEN id ELSE mapping[s]]

\* as PushModule, with unshift in the place of push
PushModule_unshift(list, module) == <<module>> \o list

\* moduleList.push(dependenceModule)
PushModule(list, module) == Append(list, module)

\* one call of the forEach callback
ResolveDependence ==
    /\ pc = "forEach"
    /\ depIdx <= Len(moduleList[modIdx].dependencies)
    /\ LET module == moduleList[modIdx]
           dependencePath == module.dependencies[depIdx]
           absolutePath == join(dirname(module.path), dependencePath)
       IN IF FileExists(absolutePath)
          THEN /\ Len(moduleList) < MaxModules
               /\ LET dependenceModule == createModule(absolutePath, identifier)
                  IN moduleList' =
                        PushModule([moduleList EXCEPT ![modIdx].dependenceMapping =
                                       SetMapping(module.dependenceMapping, dependencePath,
                                                  dependenceModule.id)],
                                   dependenceModule)
               /\ identifier' = NextIdentifier(identifier)
               /\ depIdx' = depIdx + 1
               /\ UNCHANGED <<pc, error>>
          ELSE \* fs.readFileSync throws, nothing catches it
               /\ pc' = "failed"
               /\ error' = "ENOENT"
               /\ UNCHANGED <<moduleList, identifier, depIdx>>
    /\ UNCHANGED <<fs, firstGraph, modIdx, graph, result, output>>
    /\ UNCHANGED loaderVars

\* forEach is through with module.dependencies: the for-of loop moves on
NextModule ==
    /\ pc = "forEach"
    /\ depIdx > Len(moduleList[modIdx].dependencies)
    /\ modIdx' = modIdx + 1
    /\ pc' = "forOf"
    /\ UNCHANGED <<fs, firstGraph, identifier, moduleList, depIdx, graph, result, output, error>>
    /\ UNCHANGED loaderVars

\* return moduleList; const graph = createDependenceTree(...)
ReturnTree ==
    /\ pc = "forOf"
    /\ modIdx > Len(moduleList)
    /\ graph' = moduleList
    /\ pc' = "built"
    /\ UNCHANGED <<fs, firstGraph, identifier, moduleList, modIdx, depIdx, result, output, error>>
    /\ UNCHANGED loaderVars

(***************************************************************************)
(* bundle(graph) and console.log(result)                                   *)
(***************************************************************************)
\* the literal of require(0) in the template
StartId == 0

\* as bundle, with the entries keyed by their position in the text
bundle_indexKey(dependenceTree) ==
    [type |-> "artifact",
     entries |-> [k \in 1..Len(dependenceTree) |->
                    [key |-> k,
                     fn |-> dependenceTree[k].code,
                     mapping |-> dependenceTree[k].dependenceMapping]],
     start |-> StartId]

\* the text bundle returns: one table entry per record, in the order of
\* dependenceTree.forEach, and the loader template with its require(StartId)
bundle(dependenceTree) ==
    [type |-> "artifact",
     entries |-> [k \in 1..Len(dependenceTree) |->
                    [key |-> dependenceTree[k].id,
                     fn |-> dependenceTree[k].code,
                     mapping |-> dependenceTree[k].dependenceMapping]],
     start |-> StartId]

\* const result = bundle(graph);
Bundle ==
    /\ pc = "built"
    /\ result' = bundle(graph)
    /\ pc' = "bundled"
    /\ UNCHANGED <<fs, firstGraph, identifier, moduleList, modIdx, depIdx, graph, output, error>>
    /\ UNCHANGED loaderVars

\* console.log(result);
Output ==
    /\ pc = "bundled"
    /\ output' = result
    /\ pc' = "printed"
    /\ UNCHANGED <<fs, firstGraph, identifier, moduleList, modIdx, depIdx, graph, result, error>>
    /\ UNCHANGED loaderVars

(***************************************************************************)
(* The artifact, run by its host: (function(modules) { ... })({ ... })     *)
(***************************************************************************)
\* the object literal {id: [fn, mapping], ...}: of two entries with one key
\* the later one stands
TableOf(entries) ==
    [id \in {entries[k].key : k \in 1..Len(entries)} |->
        LET last == CHOOSE k \in 1..Len(entries) :
                        /\ entries[k].key = id
                        /\ \A l \in 1..Len(entries) : entries[l].key = id => l <= k
        IN [fn |-> entries[last].fn, mapping |-> entries[last].mapping]]

\* as EnterRequire, with requireModule looking names up in the table of
\* the entry module
EnterRequire_entryTable(table, id, obj) ==
    [id |-> id,
     fn |-> table[id].fn,
     dependenceMapping |-> table[StartId].mapping,
     module |-> ObjectRef(obj),
     next |-> 1]

\* require(id) up to its call of fn: the destructuring of modules[id], the
\* closure requireModule over dependenceMapping, and a new module object
EnterRequire(table, id, obj) ==
    [id |-> id,
     fn |-> table[id].fn,
     dependenceMapping |-> table[id].mapping,
     module |-> ObjectRef(obj),
     next |-> 1]

\* requireModule(name): return require(dependenceMapping[name]);
requireModule(frame, name) == frame.dependenceMapping[name]

\* the host evaluates the text: the function is called with the table and
\* runs require(StartId) up to the call of the factory
ExecuteArtifact ==
    /\ pc = "printed"
    /\ LET table == TableOf(output.entries)
       IN /\ modules' = table
          /\ IF output.start \in DOMAIN table
             THEN /\ stack' = <<EnterRequire(table, output.start, nextObj)>>
                  /\ factoryRuns' = [id \in DOMAIN table |-> IF id = output.start THEN 1 ELSE 0]
                  /\ nextObj' = nextObj + 1
                  /\ pc' = "running"
                  /\ error' = error
             ELSE \* modules[id] is undefined: the destructuring throws
                  /\ stack' = <<>>
                  /\ factoryRuns' = [id \in DOMAIN table |-> 0]
                  /\ nextObj' = nextObj
                  /\ pc' = "threw"
                  /\ error' = "TypeError"
          /\ returned' = [id \in DOMAIN table |-> {}]
    /\ UNCHANGED <<rootValue, artifactValue>>
    /\ UNCHANGED <<fs, firstGraph, identifier, moduleList, modIdx, depIdx, graph, result, output>>

\* the factory on top of the stack reaches its next require call
RequireCall ==
    /\ pc = "running"
    /\ Len(stack) < MaxDepth
    /\ LET frame == stack[Len(stack)]
       IN /\ frame.next <= Len(frame.fn.requires)
          /\ LET name == frame.fn.requires[frame.next]
             IN IF /\ name \in DOMAIN frame.dependenceMapping
                   /\ requireModule(frame, name) \in DOMAIN modules
                THEN /\ stack' = Append(stack, EnterRequire(modules, requireModule(frame, name), nextObj))
                     /\ factoryRuns' = [factoryRuns EXCEPT ![requireModule(frame, name)] = @ + 1]
                     /\ nextObj' = nextObj + 1
                     /\ UNCHANGED <<pc, error>>
                ELSE \* modules[id] is undefined: the destructuring throws,
                     \* and no require call on the stack catches it
                     /\ stack' = <<>>
                     /\ pc' = "threw"
                     /\ error' = "TypeError"
                     /\ UNCHANGED <<factoryRuns, nextObj>>
    /\ UNCHANGED <<modules, returned, rootValue, artifactValue>>
    /\ UNCHANGED <<fs, firstGraph, identifier, moduleList, modIdx, depIdx, graph, result, output>>

\* what the self-invoking function returns once require(StartId) has
\* returned value: the statement is "require(0);", the function ends there
FunctionResult(value) == Undefined

\* the factory on top of the stack runs to its end: return module.exports;
FactoryReturn ==
    /\ pc = "running"
    /\ LET frame == stack[Len(stack)]
       IN /\ frame.next > Len(frame.fn.requires)
          /\ returned' = [returned EXCEPT ![frame.id] = @ \cup {frame.module}]
          /\ IF Len(stack) = 1
             THEN /\ stack' = <<>>
                  /\ rootValue' = frame.module
                  /\ artifactValue' = FunctionResult(frame.module)
                  /\ pc' = "exited"
             ELSE /\ stack' = [SubSeq(stack, 1, Len(stack) - 1)
                                 EXCEPT ![Len(stack) - 1].next = @ + 1]
                  /\ UNCHANGED <<rootValue, artifactValue, pc>>
    /\ UNCHANGED <<modules, factoryRuns, nextObj>>
    /\ UNCHANGED <<fs, firstGraph, identifier, moduleList, modIdx, depIdx, graph, result, output, error>>

\* as Unwind, with a try/catch around the call of fn in require: the
\* failure ends with the require call it happened in
Unwind_caught(st) ==
    IF Len(st) > 1
    THEN [stack |-> [SubSeq(st, 1, Len(st) - 1) EXCEPT ![Len(st) - 1].next = @ + 1],
          pc |-> "running"]
    ELSE [stack |-> <<>>, pc |-> "threw"]

\* an exception raised inside fn(requireModule, module, module.exports):
\* require has no try/catch, so every active require call is left and the
\* exception reaches the caller of the self-invoking function
Unwind(st) == [stack |-> <<>>, pc |-> "threw"]

\* the code of the factory on top of the stack throws
FactoryThrow ==
    /\ pc = "running"
    /\ stack # <<>>
    /\ stack' = Unwind(stack).stack
    /\ pc' = Unwind(stack).pc
    /\ error' = "FactoryError"
    /\ UNCHANGED <<modules, factoryRuns, returned, nextObj, rootValue, artifactValue>>
    /\ UNCHANGED <<fs, firstGraph, identifier, moduleList, modIdx, depIdx, graph, result, output>>

Next ==
    \/ CreateEntry
    \/ VisitModule
    \/ ResolveDependence
    \/ NextModule
    \/ ReturnTree
    \/ Bundle
    \/ Output
    \/ ExecuteArtifact
    \/ RequireCall
    \/ FactoryReturn

Spec == Init /\ [][Next]_vars

(***************************************************************************)
(* The loader on its own: the template of bundle called with any           *)
(* well-formed table (every entry's lookup table names an entry), also     *)
(* tables whose requires form a cycle.                                     *)
(***************************************************************************)
LoaderSizes == {1, 2, 3}
LoaderSpecifiers == {SpecA, SpecB}
LoaderRequires ==
    {<<>>} \cup {<<s>> : s \in LoaderSpecifiers}
           \cup {<<s, t>> : s \in LoaderSpecifiers, t \in LoaderSpecifiers}

LoaderEntries(n) ==
    UNION {{[fn |-> [src |-> <<>>, requires |-> r], mapping |-> m] :
                m \in [SeqElems(r) -> 0..(n - 1)]} : r \in LoaderRequires}

InitLoader ==
    /\ \E n \in LoaderSizes :
         \E table \in [1..n -> LoaderEntries(n)] :
            output = [type |-> "artifact",
                      entries |-> [k \in 1..n |->
                                     [key |-> k - 1,
                                      fn |-> table[k].fn,
                                      mapping |-> table[k].mapping]],
                      start |-> StartId]
    /\ pc = "printed"
    /\ fs = <<>>
    /\ identifier = 0
    /\ moduleList = <<>>
    /\ modIdx = 0
    /\ depIdx = 0
    /\ graph = <<>>
    /\ firstGraph = <<>>
    /\ result = output
    /\ error = "none"
    /\ modules = <<>>
    /\ stack = <<>>
    /\ factoryRuns = <<>>
    /\ returned = <<>>
    /\ nextObj = 0
    /\ rootValue = None
    /\ artifactValue = None

NextLoader ==
    \/ ExecuteArtifact
    \/ RequireCall
    \/ FactoryReturn
    \/ FactoryThrow

SpecLoader == InitLoader /\ [][NextLoader]_vars

(***************************************************************************)
(* Two builds in one process: createDependenceTree is called again once    *)
(* its first call has returned.  The function runs to its end without      *)
(* yielding, so two calls cannot interleave; identifier is the module's    *)
(* variable and the second call finds it where the first call left it.     *)
(***************************************************************************)
InvokeAgain ==
    /\ pc = "built"
    /\ firstGraph = <<>>
    /\ firstGraph' = graph
    /\ graph' = <<>>
    /\ moduleList' = <<>>
    /\ modIdx' = 0
    /\ depIdx' = 0
    /\ pc' = "start"
    /\ UNCHANGED <<fs, identifier, result, output, error>>
    /\ UNCHANGED loaderVars

NextTwoBuilds ==
    \/ CreateEntry
    \/ VisitModule
    \/ ResolveDependence
    \/ NextModule
    \/ ReturnTree
    \/ InvokeAgain

SpecTwoBuilds == Init /\ [][NextTwoBuilds]_vars

(***************************************************************************)
(* The properties.                                                         *)
(***************************************************************************)
\* createDependenceTree has returned (the build script holds the graph)
GraphReturned == pc \in {"built", "bundled", "printed", "running", "exited"}

\* no file is reachable from itself through import declarations
Acyclic(files) ==
    \A p \in DOMAIN files : p \notin ReachFrom(files, Imported(files, {p}))

\* some import chain from the entry names a path that is no file
MissingReachable(files) == \E p \in Reachable(files) : p \notin DOMAIN files

PathsOf(list) == {list[k].path : k \in 1..Len(list)}
IdsOf(list) == {list[k].id : k \in 1..Len(list)}
RecordsWithPath(list, p) == {k \in 1..Len(list) : list[k].path = p}

\* C1: for an acyclic import graph the returned graph holds exactly one
\* record per path reachable from the entry: no two records share a path
\* and every reachable path has a record.
C1_OneRecordPerPath ==
    (GraphReturned /\ Acyclic(fs)) =>
        /\ \A k, l \in 1..Len(graph) : graph[k].path = graph[l].path => k = l
        /\ PathsOf(graph) = Reachable(fs)

\* C2: when two modules B and C of the returned graph both import a module
\* D, the graph holds exactly one record for D and B's and C's
\* dependenceMapping give their specifier for D the same id.
C2_Diamond ==
    GraphReturned =>
        \A b, c \in 1..Len(graph) :
            \A sb \in SeqElems(graph[b].dependencies), sc \in SeqElems(graph[c].dependencies) :
                (/\ graph[b].path # graph[c].path
                 /\ join(dirname(graph[b].path), sb) = join(dirname(graph[c].path), sc))
                => /\ Cardinality(RecordsWithPath(graph, join(dirname(graph[b].path), sb))) = 1
                   /\ graph[b].dependenceMapping[sb] = graph[c].dependenceMapping[sc]

\* the files of entry -> a.js -> b.js -> a.js
IsMutualImport ==
    /\ EntryPath \in DOMAIN fs /\ PathA \in DOMAIN fs /\ PathB \in DOMAIN fs
    /\ fs[EntryPath] = <<SpecA>>
    /\ fs[PathA] = <<SpecB>>
    /\ fs[PathB] = <<SpecA>>

\* C3: for entry -> a.js -> b.js -> a.js the build never holds more than
\* the 3 records of the 3 files (a path met again makes no new record), and
\* the graph it returns has exactly 3 records.
C3_CycleBuildsThreeRecords ==
    IsMutualImport =>
        /\ Len(moduleList) <= 3
        /\ (GraphReturned => Len(graph) = 3)

\* C4: during one run of the artifact the factory of an id is not run
\* again once a require(id) has returned: the factory of id has then run
\* once, and every require(id) has returned the same exports object.
C4_FactoryOncePerId ==
    pc \in {"running", "exited"} =>
        \A id \in DOMAIN factoryRuns :
            returned[id] # {} =>
                /\ factoryRuns[id] <= 1
                /\ Cardinality(returned[id]) <= 1

\* C5: a require(id) made while the factory of id has started and not
\* returned does not start that factory again, so no id is twice among the
\* active require calls and their depth is bounded by the size of the table.
C5_NoReentry ==
    /\ \A k, l \in 1..Len(stack) : stack[k].id = stack[l].id => k = l
    /\ Len(stack) <= Cardinality(DOMAIN modules)

\* C6: in the returned graph the record of the entry path has id 0, the id
\* the loader starts from, and the factory the loader starts with is the
\* entry's code.
C6_EntryIdZero ==
    /\ GraphReturned =>
          /\ graph[1].path = EntryPath
          /\ \A k \in 1..Len(graph) : graph[k].path = EntryPath => graph[k].id = StartId
    /\ pc \in {"bundled", "printed", "running", "exited"} => result.start = graph[1].id
    /\ pc \in {"running", "exited"} => modules[StartId].fn = graph[1].code

C6_Witness ==
    /\ pc = "exited"
    /\ Len(graph) >= 3
    /\ factoryRuns[StartId] = 1

\* C7: the value the artifact's self-invoking function returns is the value
\* require(0) returned, the exports object of the entry module.
C7_ArtifactYieldsEntryExports ==
    pc = "exited" =>
        /\ artifactValue = rootValue
        /\ rootValue \in returned[StartId]

\* C8: once the graph is returned, every id stored in a record's
\* dependenceMapping is the id of a record of the graph, and the emitted
\* table has an entry for every id a requireModule call can ask for.
C8_ClosedGraph ==
    /\ GraphReturned =>
          \A k \in 1..Len(graph) :
              \A s \in DOMAIN graph[k].dependenceMapping :
                  graph[k].dependenceMapping[s] \in IdsOf(graph)
    /\ pc \in {"bundled", "printed", "running", "exited"} =>
          \A k \in 1..Len(result.entries) :
              /\ SeqElems(result.entries[k].fn.requires) \subseteq DOMAIN result.entries[k].mapping
              /\ \A s \in DOMAIN result.entries[k].mapping :
                    result.entries[k].mapping[s] \in DOMAIN TableOf(result.entries)

C8_Witness ==
    /\ pc = "bundled"
    /\ \E k \in 1..Len(graph) :
          /\ k > 1
          /\ Cardinality(DOMAIN graph[k].dependenceMapping) >= 2

\* C9: when an import chain from the entry names a path that is no file,
\* the build does not return a graph and, where it stops, it has stopped on
\* the uncaught read error (or the model has cut it off); a build that has
\* stopped on the error has produced no graph, no artifact and no output.
C9_MissingDependencyAborts ==
    /\ MissingReachable(fs) =>
          /\ ~GraphReturned
          /\ (~ENABLED Next) => (pc = "failed" \/ Len(moduleList) = MaxModules)
    /\ pc = "failed" =>
          /\ error = "ENOENT"
          /\ graph = <<>>
          /\ result = None
          /\ output = None

C9_Witness ==
    /\ pc = "failed"
    /\ modIdx >= 2
    /\ Len(moduleList) >= 3

\* the path whose read ended the build
FailedPath ==
    IF moduleList = <<>> THEN EntryPath
    ELSE join(dirname(moduleList[modIdx].path), moduleList[modIdx].dependencies[depIdx])

\* the path with the default extension appended
WithDefaultExtension(p) == <<p[1], p[2] \o ".js">>

\* C10: a specifier whose joined path is no file while the same path with
\* '.js' appended is a file resolves to that file: the build does not fail
\* on it.
C10_ResolutionFallback ==
    pc = "failed" => WithDefaultExtension(FailedPath) \notin DOMAIN fs

\* C11: two calls of createDependenceTree in one process do not interfere
\* through the id counter: each returned graph has its ids starting at 0,
\* and the second build of the same files gives the ids the first one gave.
C11_BuildsIndependent ==
    (pc = "built" /\ firstGraph # <<>>) =>
        /\ firstGraph[1].id = 0
        /\ graph[1].id = 0
        /\ graph = firstGraph

\* C12: the loader does not catch a factory's failure: once a factory has
\* thrown, every active require call has been left, require(0) has returned
\* nothing, the artifact has yielded nothing, and no further step of any
\* factory runs.
C12_FailurePropagates ==
    error = "FactoryError" =>
        /\ pc = "threw"
        /\ stack = <<>>
        /\ rootValue = None
        /\ artifactValue = None
        /\ ~ENABLED NextLoader

\* a factory has thrown inside a nested require, after another nested
\* require had returned
C12_Witness ==
    /\ error = "FactoryError"
    /\ \E id \in DOMAIN factoryRuns :
          id # StartId /\ factoryRuns[id] >= 1 /\ returned[id] = {}
    /\ \E id \in DOMAIN factoryRuns : returned[id] # {}

\* the records the for-of loop has reached so far
Visited == IF pc = "start" THEN 0 ELSE IF pc = "forOf" THEN modIdx - 1 ELSE modIdx

\* C13: within one build the records are processed first-in first-out in
\* the order they were discovered, every new record gets the next value of
\* the one increasing counter when it is discovered, so no two records
\* share an id and the ids increase along moduleList.
C13_IdsFollowDiscovery ==
    pc \notin {"start", "failed"} =>
        /\ \A k, l \in 1..Len(moduleList) :
              k < l => moduleList[k].id < moduleList[l].id
        /\ \A k \in 1..Len(moduleList) : moduleList[k].id < identifier
        /\ identifier = moduleList[1].id + Len(moduleList)
        /\ \A k \in 1..Len(moduleList) :
              moduleList[k].hasMapping <=> (k <= Visited \/ GraphReturned)
        \* the records a module's imports made stand in the order of the
        \* imports, behind every record discovered before them
        /\ \A k, l \in 1..Len(moduleList) :
              (k < l /\ moduleList[k].hasMapping /\ moduleList[l].hasMapping) =>
                  \A s \in DOMAIN moduleList[k].dependenceMapping,
                     t \in DOMAIN moduleList[l].dependenceMapping :
                        moduleList[k].dependenceMapping[s] < moduleList[l].dependenceMapping[t]

C13_Witness ==
    /\ pc = "built"
    /\ Len(graph) >= 4
    /\ \E k \in 2..Len(graph) : DOMAIN graph[k].dependenceMapping # {}

\* the file a specifier names when read from the directory of the file at
\* path p: the directory's names, then the specifier's, a '..' taking back
\* the name before it
RECURSIVE Resolve(_, _)
Resolve(acc, segs) ==
    IF segs = <<>> THEN acc
    ELSE IF Head(segs) = ".." /\ acc # <<>> /\ acc[Len(acc)] # ".."
         THEN Resolve(SubSeq(acc, 1, Len(acc) - 1), Tail(segs))
         ELSE Resolve(Append(acc, Head(segs)), Tail(segs))

RelativeTo(p, s) == <<Resolve(<<>>, p[1] \o s.rel), s.base>>

\* C14: in the returned graph every specifier of a record's dependency list
\* has an entry in the record's dependenceMapping, and the entry is the id
\* of a record whose path is the specifier joined to the directory of the
\* importing record's own path.
C14_MappingCompleteAndCorrect ==
    GraphReturned =>
        \A k \in 1..Len(graph) :
            \A s \in SeqElems(graph[k].dependencies) :
                /\ s \in DOMAIN graph[k].dependenceMapping
                /\ \E l \in 1..Len(graph) :
                      /\ graph[l].id = graph[k].dependenceMapping[s]
                      /\ graph[l].path = RelativeTo(graph[k].path, s)

\* a module of the lib directory imports './a.js' or '../b.js'
C14_Witness ==
    /\ pc = "built"
    /\ \E k \in 1..Len(graph) :
          /\ graph[k].path = PathLibA
          /\ DOMAIN graph[k].dependenceMapping # {}

\* C15: requireModule is scoped to the requiring module: every active
\* require(id) looks names up in the table of its own id, and the require
\* call a factory has made, also after earlier nested requires have
\* returned, is for the id that the factory's own table gives the name.
C15_RequireModuleScoped ==
    /\ \A k \in 1..Len(stack) :
          /\ stack[k].fn = modules[stack[k].id].fn
          /\ stack[k].dependenceMapping = modules[stack[k].id].mapping
    /\ \A k \in 2..Len(stack) :
          LET caller == stack[k - 1]
          IN /\ caller.next <= Len(caller.fn.requires)
             /\ stack[k].id = modules[caller.id].mapping[caller.fn.requires[caller.next]]

\* a factory makes its second require call, after a nested require of a
\* module whose table gives the same name another id has returned
C15_Witness ==
    /\ Len(stack) >= 3
    /\ LET caller == stack[Len(stack) - 1]
           name == caller.fn.requires[caller.next]
       IN /\ caller.next = 2
          /\ \E id \in DOMAIN modules :
                /\ returned[id] # {}
                /\ name \in DOMAIN modules[id].mapping
                /\ modules[id].mapping[name] # stack[Len(stack)].id

\* C16: bundle emits exactly one table entry per record, in the order of
\* the graph's records, keyed by the record's id and holding the record's
\* code and its dependenceMapping, and leaves the graph and its records as
\* createDependenceTree returned them.
C16_PureSerialization ==
    pc \in {"bundled", "printed", "running", "exited", "threw"} =>
        /\ Len(result.entries) = Len(graph)
        /\ \A k \in 1..Len(graph) :
              /\ result.entries[k].key = graph[k].id
              /\ result.entries[k].fn = graph[k].code
              /\ result.entries[k].mapping = graph[k].dependenceMapping
        /\ graph = moduleList

C16_Witness ==
    /\ pc = "bundled"
    /\ Len(graph) >= 3
    /\ \E k \in 2..Len(graph) : DOMAIN graph[k].dependenceMapping # {}

\* C17: during the build a record keeps its id, path, code and dependency
\* list; its dependenceMapping is initialised once, while the record is the
\* one the for-of loop is at, is only added to while the loop stays there,
\* and is not written once the loop has moved on.
C17_RecordsImmutable ==
    [][\A k \in 1..Len(moduleList) :
          /\ k <= Len(moduleList')
          /\ moduleList'[k].id = moduleList[k].id
          /\ moduleList'[k].path = moduleList[k].path
          /\ moduleList'[k].code = moduleList[k].code
          /\ moduleList'[k].dependencies = moduleList[k].dependencies
          /\ moduleList[k].hasMapping => moduleList'[k].hasMapping
          /\ DOMAIN moduleList[k].dependenceMapping \subseteq DOMAIN moduleList'[k].dependenceMapping
          /\ (\/ moduleList'[k].hasMapping # moduleList[k].hasMapping
              \/ moduleList'[k].dependenceMapping # moduleList[k].dependenceMapping)
             => k = modIdx
          /\ (~moduleList[k].hasMapping /\ moduleList'[k].hasMapping)
             => (pc = "forOf" /\ moduleList'[k].dependenceMapping = EmptyMapping)
      ]_vars

\* the loop has moved on from a record with a filled dependenceMapping and
\* is filling the next one's
C17_Witness ==
    /\ pc = "forEach"
    /\ modIdx >= 2
    /\ DOMAIN moduleList[1].dependenceMapping # {}
    /\ DOMAIN moduleList[modIdx].dependenceMapping # {}

\* C18: in the returned graph every record other than the entry's is the
\* target of some entry of some record's dependenceMapping, also when a
\* module lists one specifier more than once.
C18_NoOrphans ==
    GraphReturned =>
        \A k \in 2..Len(graph) :
            \E l \in 1..Len(graph) :
                \E s \in DOMAIN graph[l].dependenceMapping :
                    graph[l].dependenceMapping[s] = graph[k].id

\* the build and the run of its artifact, every statement followed by the next
SpecFair == Init /\ [][Next]_vars /\ WF_vars(Next)

\* the number of records the build makes from the file at path p: one for
\* the file, and those of every import declaration in it
RECURSIVE TreeSize(_, _)
RECURSIVE TreeSizes(_, _, _)
TreeSize(files, p) == 1 + TreeSizes(files, p, files[p])
TreeSizes(files, p, specs) ==
    IF specs = <<>> THEN 0
    ELSE TreeSize(files, join(dirname(p), Head(specs))) + TreeSizes(files, p, Tail(specs))

\* an acyclic import graph in which every specifier names a file, and
\* whose build stays within the model's bound on moduleList
TerminatingInput ==
    /\ EntryPath \in DOMAIN fs
    /\ Acyclic(fs)
    /\ ~MissingReachable(fs)
    /\ TreeSize(fs, EntryPath) <= MaxModules

\* C19: for an acyclic import graph in which every specifier names a file,
\* createDependenceTree returns (the for-of loop runs out of records) and
\* require(0) of the emitted table comes to its end with every nested
\* require call returned.
C19_Terminates ==
    TerminatingInput ~>
        (/\ pc = "exited"
         /\ modIdx > Len(moduleList)
         /\ stack = <<>>
         /\ \A id \in DOMAIN factoryRuns : factoryRuns[id] = Cardinality(returned[id]))

C19_Witness ==
    /\ pc = "exited"
    /\ TerminatingInput
    /\ Len(graph) >= 4
    /\ \E k \in 2..Len(graph) : DOMAIN graph[k].dependenceMapping # {}

====
